---- MODULE Spec2Model ----
(***************************************************************************)
(* Control plane of Ledger.Lift as implemented by the Netlify functions:   *)
(* the deletion-request handlers over the Postgres `jobs` table, the       *)
(* background worker and job repository over the S3 job documents, and     *)
(* the ingest (admission) handler.                                         *)
(***************************************************************************)
EXTENDS Integers, Sequences, FiniteSets, TLC

\* ---------------------------------------------------------------- bounds
MaxReqs == 2
MaxClock == 2
MaxWorkers == 2
MaxLedgerCalls == 2
MaxAuditRecords == 3
MaxBucket == 1
AuditBatchSize == 2
MaxRetryLimit == 4
MaxPartsSent == 2
MaxFetchRetries == 3
MaxPlannedParts == 3
MaxFailureCount == 8
MaxInFlight == 3

\* ------------------------------------------------------------- constants
JobIds == {"j1", "j2"}
Users == {"u1", "u2"}
ReqIds == 1..MaxReqs
WorkerIds == 1..MaxWorkers
CallerIds == {1, 2}
KnownJobs == {"j1"}
WorkerConcurrency == 2
MaxAttempts == 3
NoKey == "null"
ActiveRowStatus == {"queued", "processing"}
TerminalRowStatus == {"completed", "failed"}
NonTerminalManifestStatus == {"PENDING", "DELETING"}
CostPerPageCents == 12
MaxJobCostCents == 24000
StorageErrorMessages == {"connect ECONNREFUSED 10.0.0.5:9000"}
ExceptionMessages == {""} \cup StorageErrorMessages
SourceKeys == {"incoming/j1.pdf", "incoming/j2.pdf", "incoming/other.pdf"}
UnitChoices == {800, 1200, 2001}
LedgerCallIds == 1..MaxLedgerCalls
AuditEventTypes == {"job.queued", "job.started"}
MetadataChoices == {<<"pages", "engine">>, <<"engine", "pages">>}

VARIABLES
    rows,            \* Postgres table jobs: job id -> row
    manifestsTable,  \* Postgres table deletion_manifests: sequence of rows
    reqs,            \* deletion requests in flight: request id -> handler frame
    clock,           \* wall clock read by new Date()
    docs,            \* S3 objects jobs/<id>.json: job id -> JobDoc
    objects,         \* other S3 objects written by the worker (keys)
    workers,         \* background-worker invocations: id -> handler frame
    issued,          \* job ids returned by ingest-pdf with status QUEUED
    queue,           \* broker lanes: messages enqueued
    deadLetter,      \* broker dead-letter lane
    emergencyStop,   \* the EMERGENCY_STOP key
    admission,       \* ingest-pdf: last request and its response
    callers,         \* direct callers of the job repository: id -> frame
    ledger,          \* Cost Ledger: cost records and reserve calls in flight
    audit,           \* Audit Log: stored events, batch buffer, stream
    plan,            \* initiate-upload: last request and its response
    cors,            \* createHandler: last request and its response
    upl,             \* uploadPartWithRetry: one call in progress
    cmp,             \* complete-multipart: last request and the storage call
    breaker,         \* CircuitBreaker instance of the API client
    ef,              \* ApiClient.enhancedFetch: one call in progress
    fs,              \* fetchSafe: one call in progress
    flow,            \* UploadPanel onDrop: one upload flow in progress
    statusReq        \* get-status: last request and its response

delVars == <<rows, manifestsTable, reqs, clock>>
workerVars == <<docs, objects, workers, issued, queue, deadLetter, emergencyStop,
               admission>>
coreVars == <<delVars, workerVars, callers>>
sideVars == <<ledger, audit, plan, cors, upl, cmp, breaker>>
moreVars == <<ef, fs, flow, statusReq>>
vars == <<rows, manifestsTable, reqs, clock, docs, objects, workers, issued,
          queue, deadLetter, emergencyStop, admission, callers, ledger, audit, plan,
          cors, upl, cmp, breaker, ef, fs, flow,
          statusReq>>

NoManifest ==
    [present |-> FALSE, jobId |-> NoKey, userId |-> NoKey, status |-> "none",
     requestedAt |-> 0, artifacts |-> <<>>]

NoRow ==
    [present |-> FALSE, user_id |-> NoKey, status |-> "none",
     source_key |-> NoKey, processed_key |-> NoKey, export_key |-> NoKey,
     bucket |-> NoKey, deletion_manifest |-> NoManifest,
     cancellation_requested |-> FALSE]

QueuedRow(u, src) ==
    [NoRow EXCEPT !.present = TRUE, !.user_id = u, !.status = "queued",
                  !.source_key = src]

IdleReq ==
    [pc |-> "idle", endpoint |-> "none", jobId |-> NoKey, userId |-> NoKey,
     job |-> NoRow, atRequest |-> NoRow, manifest |-> NoManifest,
     wroteFlag |-> FALSE, code |-> 0]

\* ------------------------------------------------ job documents (model.ts)
TerminalDocStatus == {"DONE", "ERROR", "CANCELLED"}

NoDoc ==
    [present |-> FALSE, status |-> "none", pct |-> 0, exportKey |-> NoKey,
     error |-> "none", errorMessage |-> "none", logs |-> <<>>]

\* a patch names the fields it carries; absent fields are "keep"
Keep == "keep"
NoPatch ==
    [status |-> Keep, pct |-> -1, exportKey |-> Keep, error |-> Keep,
     errorMessage |-> Keep, logs |-> <<Keep>>]

\* repo.ts line 15: next = { ...cur, ...patch, updatedAt }
mergeDoc(cur, patch) ==
    [present |-> TRUE,
     status |-> IF patch.status = Keep THEN cur.status ELSE patch.status,
     pct |-> IF patch.pct = -1 THEN cur.pct ELSE patch.pct,
     exportKey |-> IF patch.exportKey = Keep THEN cur.exportKey ELSE patch.exportKey,
     error |-> IF patch.error = Keep THEN cur.error ELSE patch.error,
     errorMessage |-> IF patch.errorMessage = Keep THEN cur.errorMessage
                      ELSE patch.errorMessage,
     logs |-> IF patch.logs = <<Keep>> THEN cur.logs ELSE patch.logs]

exportKeyOf(j) == "exports/" \o j \o ".xlsx"
processedKeyOf(j) == "processed/" \o j \o ".meta.json"

\* parse-and-extract-background.ts lines 23-57: pct of each progress entry
progressPct_dip(stage) ==
    CASE stage = "PROCESSING"    -> 10
      [] stage = "PARSE_PDF"     -> 25
      [] stage = "DETECT_TABLES" -> 45
      [] stage = "CLASSIFY"      -> 40
      [] stage = "EXPORT_EXCEL"  -> 85
      [] stage = "DONE"          -> 100
progressPct(stage) ==
    CASE stage = "PROCESSING"    -> 10
      [] stage = "PARSE_PDF"     -> 25
      [] stage = "DETECT_TABLES" -> 45
      [] stage = "CLASSIFY"      -> 65
      [] stage = "EXPORT_EXCEL"  -> 85
      [] stage = "DONE"          -> 100

\* parse-and-extract-background.ts: the patch of each updateJob call
stagePatch(stage, j, msg) ==
    CASE stage = "PROCESSING"    -> [NoPatch EXCEPT !.status = "PROCESSING",
                                                    !.pct = progressPct(stage)]
      [] stage \in {"PARSE_PDF", "DETECT_TABLES", "CLASSIFY", "EXPORT_EXCEL"}
                                 -> [NoPatch EXCEPT !.pct = progressPct(stage)]
      [] stage = "DONE"          -> [NoPatch EXCEPT !.status = "DONE", !.exportKey = exportKeyOf(j),
                                                    !.pct = progressPct(stage)]
      [] stage = "NOT_PDF"       -> [NoPatch EXCEPT !.status = "ERROR", !.error = "NOT_PDF",
                                                    !.errorMessage = "Uploaded file is not a PDF"]
      [] stage = "NO_SCHEDULES"  -> [NoPatch EXCEPT !.status = "ERROR", !.error = "NO_SCHEDULES",
                                                    !.errorMessage = "No schedules detected"]
      [] stage = "EXTRACT_FAIL"  -> [NoPatch EXCEPT !.status = "ERROR", !.error = "EXTRACT_FAIL",
                                                    !.errorMessage = msg]

\* the updateJob call that follows a stage that ran without throwing
nextStage(stage) ==
    CASE stage = "PROCESSING"    -> "PARSE_PDF"
      [] stage = "PARSE_PDF"     -> "DETECT_TABLES"
      [] stage = "DETECT_TABLES" -> "CLASSIFY"
      [] stage = "CLASSIFY"      -> "EXPORT_EXCEL"
      [] stage = "EXPORT_EXCEL"  -> "DONE"

\* the handler returns right after these updates
isFinalStage(stage) == stage \in {"DONE", "NOT_PDF", "NO_SCHEDULES", "EXTRACT_FAIL"}

\* the handler's answer after its last update
finalCode(stage) == IF stage = "EXTRACT_FAIL" THEN 500 ELSE 200

\* line 61: msg = e?.message || 'Unhandled error'
caughtMessage(message) == IF message = "" THEN "Unhandled error" ELSE message

\* lines 30, 43, 59, 67: the error text of the response body, if any
finalBody(stage, msg) == IF stage = "EXTRACT_FAIL" THEN msg ELSE "none"

IdleWorker ==
    [pc |-> "idle", jobId |-> NoKey, stage |-> "none", cur |-> NoDoc,
     flagAtStart |-> FALSE, code |-> 0, msg |-> "none", body |-> "none",
     published |-> 0, publishedWith |-> Keep, regressed |-> FALSE]

IdleCaller ==
    [pc |-> "idle", jobId |-> NoKey, op |-> "none", patch |-> NoPatch,
     cur |-> NoDoc, msg |-> "none"]

\* requests are numbered in arrival order
Arrives(r) == reqs[r].pc = "idle" /\ \A q \in ReqIds : q < r => reqs[q].pc # "idle"

\* part_004 lines 42-48: one locator per non-null reference, in fixed order
calculatedArtifacts(job) ==
    LET bucket == IF job.bucket = NoKey THEN "default" ELSE job.bucket
        all == << [type |-> "incoming", key |-> job.source_key, bucket |-> bucket],
                  [type |-> "processed", key |-> job.processed_key, bucket |-> bucket],
                  [type |-> "export", key |-> job.export_key, bucket |-> bucket] >>
        NonNull(a) == a.key # NoKey
    IN SelectSeq(all, NonNull)

\* part_004 lines 50-66: an existing manifest's artifact array is reused
manifestArtifacts(job) ==
    IF job.deletion_manifest.present
    THEN job.deletion_manifest.artifacts
    ELSE calculatedArtifacts(job)

\* part_004 lines 68-74
buildManifest(jobId, userId, job, now) ==
    [present |-> TRUE, jobId |-> jobId, userId |-> userId, status |-> "PENDING",
     requestedAt |-> now, artifacts |-> manifestArtifacts(job)]

\* part_004 lines 83-84
isActiveStatus(status) == status \in {"processing", "queued"}

\* delete-job.ts line 18: WHERE ... status='processing'
deleteJobFlagMatches(row) == row.present /\ row.status = "processing"

\* ------------------------------------------- initial values, other parts
IdleLedgerCall ==
    [pc |-> "idle", jobId |-> NoKey, units |-> 0, seen |-> 0, conflicts |-> 0,
     result |-> "none"]
InitLedger == [records |-> <<>>, calls |-> [c \in LedgerCallIds |-> IdleLedgerCall]]
NoAdmission == [sourceKey |-> NoKey, code |-> 0, jobId |-> NoKey, status |-> "none"]
InitAudit == [buffer |-> <<>>, store |-> <<>>, log |-> <<>>, bucket |-> 0]
NoPlan ==
    [loaded |-> FALSE, threshold |-> 0, pdfMax |-> 0, size |-> 0, contentType |-> "none",
     code |-> 0, uploadType |-> "none", partSize |-> 0, parts |-> <<>>,
     created |-> FALSE]
Absent == [kind |-> "absent"]
NoCors ==
    [method |-> "none", headers |-> [origin |-> Absent, Origin |-> Absent],
     code |-> 0, allowOrigin |-> Absent, invoked |-> FALSE]
NoEtag == <<"missing">>
IdleUpload ==
    [pc |-> "idle", maxRetries |-> 0, attempt |-> 0, puts |-> 0, delays |-> <<>>,
     firstOk |-> NoEtag, value |-> NoEtag, error |-> "none", lastOutcome |-> "none"]
NoUploadKey == [dir |-> "none", hashLen |-> 0, hashIsHex |-> FALSE]
NoCompletion == [sourceKey |-> NoUploadKey, parts |-> <<>>, code |-> 0, sent |-> <<>>]
NewBreaker ==
    [state |-> "closed", failureCount |-> 0, recovered |-> FALSE, inFlight |-> 0,
     lastEvent |-> "none", stateBefore |-> "closed"]
NoTimer == 0 - 1
IdleFetch ==
    [pc |-> "idle", retries |-> 0, attempt |-> 0, timers |-> {}, aborted |-> FALSE,
     startedAborted |-> FALSE, abortedBy |-> NoTimer, abortedAt |-> NoTimer,
     log |-> <<>>]
IdleFetchSafe ==
    [pc |-> "idle", retries |-> 0, attempt |-> 0, timers |-> {}, aborted |-> FALSE,
     startedAborted |-> FALSE, abortedBy |-> NoTimer, abortedAt |-> NoTimer]
IdleFlow ==
    [pc |-> "idle", uploadType |-> "none", planned |-> 0, part |-> 0, etags |-> <<>>,
     calls |-> <<>>, completeParts |-> <<>>, putOk |-> FALSE, partsOk |-> 0,
     completeOk |-> FALSE, failedAfter |-> 0]
NoStatusResponse ==
    [handler |-> "none", jobId |-> NoKey, code |-> 0, status |-> "none",
     exportKey |-> NoKey, downloadUrl |-> NoKey]

Init ==
    /\ rows = [j \in JobIds |-> IF j = "j1" THEN QueuedRow("u1", "incoming/j1.pdf") ELSE NoRow]
    /\ manifestsTable = <<>>
    /\ reqs = [r \in ReqIds |-> IdleReq]
    /\ clock = 0
    /\ docs = [j \in JobIds |-> NoDoc]
    /\ objects = {}
    /\ workers = [w \in WorkerIds |-> IdleWorker]
    /\ issued = {}
    /\ queue = <<>>
    /\ deadLetter = <<>>
    /\ emergencyStop = FALSE
    /\ admission = NoAdmission
    /\ callers = [c \in CallerIds |-> IdleCaller]
    /\ ledger = InitLedger
    /\ audit = InitAudit
    /\ plan = NoPlan
    /\ cors = NoCors
    /\ upl = IdleUpload
    /\ cmp = NoCompletion
    /\ breaker = NewBreaker
    /\ ef = IdleFetch
    /\ fs = IdleFetchSafe
    /\ flow = IdleFlow
    /\ statusReq = NoStatusResponse

\* ------------------------------------------------------------ environment
\* Worker Runtime writes to the jobs row (spec 4.3): dequeue
PipelineStart(j) ==
    /\ rows[j].present /\ rows[j].status = "queued"
    /\ rows' = [rows EXCEPT ![j].status = "processing"]
    /\ UNCHANGED <<manifestsTable, reqs, clock, workerVars, callers, sideVars, moreVars>>

\* Worker Runtime records the processed artifact of a running job
PipelineWriteProcessed(j) ==
    /\ rows[j].present /\ rows[j].status = "processing"
    /\ rows[j].processed_key = NoKey
    /\ rows' = [rows EXCEPT ![j].processed_key = "processed/j.json"]
    /\ UNCHANGED <<manifestsTable, reqs, clock, workerVars, callers, sideVars, moreVars>>

\* Worker Runtime finishes: export reference and terminal status
PipelineFinish(j) ==
    /\ rows[j].present /\ rows[j].status = "processing"
    /\ \E st \in TerminalRowStatus :
         rows' = [rows EXCEPT ![j].status = st,
                              ![j].export_key = IF st = "completed" THEN "exports/j.xlsx" ELSE @]
    /\ UNCHANGED <<manifestsTable, reqs, clock, workerVars, callers, sideVars, moreVars>>

\* --------------------------------------------- request-deletion (part_004)
\* lines 13-74: parse payload, SELECT the row, build the manifest locally;
\* new Date() reads a clock that may have advanced since it was last read
RequestDeletionSelect(r, j, u, now) ==
    /\ Arrives(r)
    /\ now \in {clock, clock + 1} /\ now <= MaxClock
    /\ clock' = now
    /\ LET found == rows[j].present /\ rows[j].user_id = u
           job == rows[j]
       IN reqs' = [reqs EXCEPT ![r] =
            IF ~found
            THEN [IdleReq EXCEPT !.pc = "done", !.endpoint = "request-deletion",
                                 !.jobId = j, !.userId = u, !.code = 404]
            ELSE [IdleReq EXCEPT !.pc = "update", !.endpoint = "request-deletion",
                                 !.jobId = j, !.userId = u, !.job = job,
                                 !.atRequest = job,
                                 !.manifest = buildManifest(j, u, job, now)]]
    /\ UNCHANGED <<rows, manifestsTable, workerVars, callers, sideVars, moreVars>>

\* lines 76-84: UPDATE jobs SET deletion_manifest, then branch on the status read
RequestDeletionUpdate(r) ==
    /\ reqs[r].pc = "update"
    /\ LET j == reqs[r].jobId
           u == reqs[r].userId
       IN rows' = IF rows[j].present /\ rows[j].user_id = u
                  THEN [rows EXCEPT ![j].deletion_manifest = reqs[r].manifest]
                  ELSE rows
    /\ reqs' = [reqs EXCEPT ![r].pc = IF isActiveStatus(reqs[r].job.status) THEN "cancel" ELSE "done",
                            ![r].code = IF isActiveStatus(reqs[r].job.status) THEN 0 ELSE 202]
    /\ UNCHANGED <<manifestsTable, clock, workerVars, callers, sideVars, moreVars>>

\* lines 85-94: UPDATE jobs SET cancellation_requested=true, answer 202
RequestDeletionCancel(r) ==
    /\ reqs[r].pc = "cancel"
    /\ LET j == reqs[r].jobId
       IN rows' = IF rows[j].present
                  THEN [rows EXCEPT ![j].cancellation_requested = TRUE]
                  ELSE rows
    /\ reqs' = [reqs EXCEPT ![r].pc = "done", ![r].code = 202, ![r].wroteFlag = TRUE]
    /\ UNCHANGED <<manifestsTable, clock, workerVars, callers, sideVars, moreVars>>

\* ------------------------------------------------- delete-job.ts handler
\* lines 6-16: INSERT INTO deletion_manifests ... WHERE EXISTS(job of user)
DeleteJobInsert(r, j, u) ==
    /\ Arrives(r)
    /\ LET found == rows[j].present /\ rows[j].user_id = u
           row == [present |-> TRUE, jobId |-> j, userId |-> u, status |-> "PENDING",
                   requestedAt |-> 0, artifacts |-> <<>>]
       IN /\ manifestsTable' = IF found THEN Append(manifestsTable, row) ELSE manifestsTable
          /\ reqs' = [reqs EXCEPT ![r] =
               [IdleReq EXCEPT !.pc = "flag", !.endpoint = "delete-job",
                               !.jobId = j, !.userId = u,
                               !.atRequest = rows[j],
                               !.manifest = IF found THEN row ELSE NoManifest]]
    /\ UNCHANGED <<rows, clock, workerVars, callers, sideVars, moreVars>>

\* lines 18-20: UPDATE jobs SET cancellation_requested=true WHERE status='processing'
DeleteJobFlag(r) ==
    /\ reqs[r].pc = "flag"
    /\ LET j == reqs[r].jobId
           hit == deleteJobFlagMatches(rows[j])
       IN /\ rows' = IF hit THEN [rows EXCEPT ![j].cancellation_requested = TRUE] ELSE rows
          /\ reqs' = [reqs EXCEPT ![r].pc = "done", ![r].code = 200, ![r].wroteFlag = hit]
    /\ UNCHANGED <<manifestsTable, clock, workerVars, callers, sideVars, moreVars>>

Next ==
    \/ \E j \in JobIds : PipelineStart(j)
    \/ \E j \in JobIds : PipelineWriteProcessed(j)
    \/ \E j \in JobIds : PipelineFinish(j)
    \/ \E r \in ReqIds, j \in JobIds, u \in Users, now \in 0..MaxClock :
          RequestDeletionSelect(r, j, u, now)
    \/ \E r \in ReqIds : RequestDeletionUpdate(r)
    \/ \E r \in ReqIds : RequestDeletionCancel(r)
    \/ \E r \in ReqIds, j \in JobIds, u \in Users : DeleteJobInsert(r, j, u)
    \/ \E r \in ReqIds : DeleteJobFlag(r)

Spec == Init /\ [][Next]_vars

\* ------------------------------------------------------ job repository
\* repo.ts lines 4-7: createJob(doc) for a new QUEUED job
CreateJob(j) ==
    /\ ~docs[j].present
    /\ docs' = [docs EXCEPT ![j] = [NoDoc EXCEPT !.present = TRUE, !.status = "QUEUED"]]
    /\ UNCHANGED <<objects, workers, issued, admission, queue, deadLetter, emergencyStop, callers, delVars, sideVars, moreVars>>

\* ------------------------------------------------------ ingest-pdf.ts
\* lines 83-127: the answer for a payload that parses or not, an object
\* whose ContentLength equals the announced size or not, and whose first
\* bytes sniff as a PDF or not
ingestOutcome(payloadValid, sizeMatches, sniffedPdf) ==
    IF ~payloadValid THEN 400
    ELSE IF ~sizeMatches THEN 409
    ELSE IF ~sniffedPdf THEN 415
    ELSE 200

\* lines 129-136: randomUUID() is reached only on the path that answers 200
issuesJobId_beforeChecks(outcome) == outcome # 400
issuesJobId(outcome) == outcome = 200

\* lines 80-137: validate, HEAD and sniff the upload, answer a fresh job id
IngestPdf(j, sourceKey, outcome) ==
    /\ issuesJobId(outcome) => j \notin issued /\ ~docs[j].present /\ ~rows[j].present
    /\ issued' = IF issuesJobId(outcome) THEN issued \cup {j} ELSE issued
    /\ admission' = [sourceKey |-> sourceKey, code |-> outcome,
                     jobId |-> IF outcome = 200 THEN j ELSE NoKey,
                     status |-> IF outcome = 200 THEN "QUEUED" ELSE "none"]
    /\ UNCHANGED <<docs, objects, workers, queue, deadLetter, emergencyStop, callers, delVars, sideVars, moreVars>>

\* ------------------------------------------------------ operator (ops.md)
SetEmergencyStop ==
    /\ ~emergencyStop
    /\ emergencyStop' = TRUE
    /\ UNCHANGED <<docs, objects, workers, issued, admission, queue, deadLetter, callers, delVars, sideVars, moreVars>>

ClearEmergencyStop ==
    /\ emergencyStop
    /\ emergencyStop' = FALSE
    /\ UNCHANGED <<docs, objects, workers, issued, admission, queue, deadLetter, callers, delVars, sideVars, moreVars>>

\* ------------------------- background worker (parse-and-extract-background)
InFlight == {v \in WorkerIds : workers[v].pc \notin {"idle", "done"}}

\* invocations are numbered in arrival order; ops.md WORKER_CONCURRENCY
WorkerArrives(w) ==
    /\ workers[w].pc = "idle"
    /\ \A v \in WorkerIds : v < w => workers[v].pc # "idle"
    /\ Cardinality(InFlight) < WorkerConcurrency

\* lines 18-23: parse body, getJob, 404 when missing, else call updateJob
WorkerStart(w, j) ==
    /\ WorkerArrives(w)
    /\ workers' = [workers EXCEPT ![w] =
         IF ~docs[j].present
         THEN [IdleWorker EXCEPT !.pc = "done", !.jobId = j, !.code = 404,
                                 !.body = "Job not found"]
         ELSE [IdleWorker EXCEPT !.pc = "read", !.jobId = j, !.stage = "PROCESSING",
                                 !.flagAtStart = rows[j].cancellation_requested]]
    /\ UNCHANGED <<docs, objects, issued, admission, queue, deadLetter, emergencyStop, callers, delVars, sideVars, moreVars>>

\* repo.ts line 14: cur = getJson(job) || {}
UpdateJobRead(w) ==
    /\ workers[w].pc = "read"
    /\ workers' = [workers EXCEPT ![w].pc = "write", ![w].cur = docs[workers[w].jobId]]
    /\ UNCHANGED <<docs, objects, issued, admission, queue, deadLetter, emergencyStop, callers, delVars, sideVars, moreVars>>

\* repo.ts lines 15-17: putJson(next); the handler returns after a final update
UpdateJobWrite(w) ==
    /\ workers[w].pc = "write"
    /\ LET j == workers[w].jobId
           st == workers[w].stage
           patch == stagePatch(st, j, workers[w].msg)
       IN /\ docs' = [docs EXCEPT ![j] = mergeDoc(workers[w].cur, patch)]
          /\ workers' = [workers EXCEPT
                ![w].pc = IF isFinalStage(st) THEN "done" ELSE "run",
                ![w].cur = NoDoc,
                ![w].published = IF patch.pct = -1 THEN @ ELSE patch.pct,
                ![w].publishedWith = IF patch.pct = -1 THEN @ ELSE patch.status,
                ![w].regressed = @ \/ (patch.pct # -1 /\ patch.pct < workers[w].published),
                ![w].code = IF isFinalStage(st) THEN finalCode(st) ELSE 0,
                ![w].body = IF isFinalStage(st) THEN finalBody(st, workers[w].msg) ELSE "none"]
    /\ UNCHANGED <<objects, issued, admission, queue, deadLetter, emergencyStop, callers, delVars, sideVars, moreVars>>

\* lines 26-55: the stage between two updates runs to the next updateJob call
StageOk(w) ==
    /\ workers[w].pc = "run"
    /\ LET j == workers[w].jobId
           st == workers[w].stage
       IN /\ objects' = IF st = "EXPORT_EXCEL"
                        THEN objects \cup {processedKeyOf(j), exportKeyOf(j)}
                        ELSE objects
          /\ workers' = [workers EXCEPT ![w].pc = "read", ![w].stage = nextStage(st)]
    /\ UNCHANGED <<docs, issued, admission, queue, deadLetter, emergencyStop, callers, delVars, sideVars, moreVars>>

\* lines 28-31 and 41-44: stage result rejected (not a PDF, no schedules)
StageRejects(w) ==
    /\ workers[w].pc = "run"
    /\ workers[w].stage \in {"PROCESSING", "CLASSIFY"}
    /\ workers' = [workers EXCEPT ![w].pc = "read",
                      ![w].stage = IF workers[w].stage = "PROCESSING" THEN "NOT_PDF" ELSE "NO_SCHEDULES"]
    /\ UNCHANGED <<docs, objects, issued, admission, queue, deadLetter, emergencyStop, callers, delVars, sideVars, moreVars>>

\* lines 60-65: a stage throws; the catch block calls updateJob(ERROR)
StageThrows(w, message) ==
    /\ workers[w].pc = "run"
    /\ workers' = [workers EXCEPT ![w].pc = "read", ![w].stage = "EXTRACT_FAIL",
                                  ![w].msg = caughtMessage(message)]
    /\ UNCHANGED <<docs, objects, issued, admission, queue, deadLetter, emergencyStop, callers, delVars, sideVars, moreVars>>

\* a storage call inside updateJob throws: lines 60-65 outside the catch
\* block, swallowed by line 66 inside it
StorageFault(w, message) ==
    /\ workers[w].pc \in {"read", "write"}
    /\ workers' = [workers EXCEPT ![w] =
         IF workers[w].stage = "EXTRACT_FAIL"
         THEN [@ EXCEPT !.pc = "done", !.cur = NoDoc, !.code = 500,
                        !.body = workers[w].msg]
         ELSE [@ EXCEPT !.pc = "read", !.cur = NoDoc, !.stage = "EXTRACT_FAIL",
                        !.msg = caughtMessage(message)]]
    /\ UNCHANGED <<docs, objects, issued, admission, queue, deadLetter, emergencyStop, callers, delVars, sideVars, moreVars>>

NextWorker ==
    \/ \E j \in KnownJobs : CreateJob(j)
    \/ \E w \in WorkerIds, j \in JobIds : WorkerStart(w, j)
    \/ \E w \in WorkerIds : UpdateJobRead(w)
    \/ \E w \in WorkerIds : UpdateJobWrite(w)
    \/ \E w \in WorkerIds : StageOk(w)
    \/ \E w \in WorkerIds : StageRejects(w)
    \/ \E w \in WorkerIds, message \in ExceptionMessages : StageThrows(w, message)
    \/ \E w \in WorkerIds, message \in StorageErrorMessages : StorageFault(w, message)

SpecWorker == Init /\ [][NextWorker]_vars

\* ------------------------------------------- direct callers of the repo
DonePatch(j) == [NoPatch EXCEPT !.status = "DONE", !.exportKey = exportKeyOf(j)]
ProgressPatch == [NoPatch EXCEPT !.pct = 25]
CallerPatches(j) == {DonePatch(j), ProgressPatch}

\* a caller invokes updateJob(jobId, patch): repo.ts line 13
CallUpdateJob(c, j, patch) ==
    /\ callers[c].pc = "idle"
    /\ callers' = [callers EXCEPT ![c] =
         [IdleCaller EXCEPT !.pc = "read", !.jobId = j, !.op = "updateJob", !.patch = patch]]
    /\ UNCHANGED <<workerVars, delVars, sideVars, moreVars>>

\* a caller invokes log(jobId, lvl, msg): repo.ts lines 20-23, read and push
CallLog(c, j, msg) ==
    /\ callers[c].pc = "idle"
    /\ callers' = [callers EXCEPT ![c] =
         [IdleCaller EXCEPT !.pc = "read", !.jobId = j, !.op = "log", !.msg = msg,
                            !.patch = [NoPatch EXCEPT !.logs = Append(docs[j].logs, msg)]]]
    /\ UNCHANGED <<workerVars, delVars, sideVars, moreVars>>

\* repo.ts line 14 on behalf of a caller
CallerRead(c) ==
    /\ callers[c].pc = "read"
    /\ callers' = [callers EXCEPT ![c].pc = "write", ![c].cur = docs[callers[c].jobId]]
    /\ UNCHANGED <<workerVars, delVars, sideVars, moreVars>>

\* repo.ts lines 15-17 on behalf of a caller
CallerWrite(c) ==
    /\ callers[c].pc = "write"
    /\ docs' = [docs EXCEPT ![callers[c].jobId] = mergeDoc(callers[c].cur, callers[c].patch)]
    /\ callers' = [callers EXCEPT ![c].pc = "done", ![c].cur = NoDoc]
    /\ UNCHANGED <<objects, workers, issued, admission, queue, deadLetter, emergencyStop, delVars, sideVars, moreVars>>

NextRepo ==
    \/ \E j \in KnownJobs : CreateJob(j)
    \/ \E c \in CallerIds, j \in KnownJobs : \E patch \in CallerPatches(j) : CallUpdateJob(c, j, patch)
    \/ \E c \in CallerIds, j \in KnownJobs : CallLog(c, j, IF c = 1 THEN "m1" ELSE "m2")
    \/ \E c \in CallerIds : CallerRead(c)
    \/ \E c \in CallerIds : CallerWrite(c)

SpecRepo == Init /\ [][NextRepo]_vars

\* ------------------- one job through admission, operator, deletion, worker
NextOps ==
    \/ \E j \in KnownJobs : CreateJob(j)
    \/ \E j \in JobIds, sourceKey \in SourceKeys : IngestPdf(j, sourceKey, 200)
    \/ SetEmergencyStop
    \/ ClearEmergencyStop
    \/ \E j \in KnownJobs : PipelineStart(j)
    \/ \E j \in KnownJobs, u \in Users, now \in 0..MaxClock : RequestDeletionSelect(1, j, u, now)
    \/ RequestDeletionUpdate(1)
    \/ RequestDeletionCancel(1)
    \/ \E j \in JobIds : WorkerStart(1, j)
    \/ UpdateJobRead(1)
    \/ UpdateJobWrite(1)
    \/ StageOk(1)
    \/ StageRejects(1)
    \/ \E message \in ExceptionMessages : StageThrows(1, message)
    \/ \E message \in StorageErrorMessages : StorageFault(1, message)

SpecOps == Init /\ [][NextOps]_vars

\* ------------------------------------------------------- deletion claims
Answered(r) == reqs[r].pc = "done" /\ reqs[r].code \in {200, 202}

ManifestRowsOf(j) == {i \in DOMAIN manifestsTable : manifestsTable[i].jobId = j}

\* the artifact references a job row holds, by locator type
RefOf(row, type) ==
    CASE type = "incoming" -> row.source_key
      [] type = "processed" -> row.processed_key
      [] type = "export" -> row.export_key

LocatorTypes == {"incoming", "processed", "export"}

\* C1: requestDeletion is idempotent: invoked again on a job whose manifest
\* exists and is pending or deleting, it returns and stores that manifest
\* unchanged (status, requestedAt, artifacts) and no job ever has a second
\* manifest.
C1_RequestDeletionIdempotent ==
    /\ \A r \in ReqIds :
         ( /\ reqs[r].endpoint = "request-deletion"
           /\ reqs[r].pc \in {"cancel", "done"}
           /\ reqs[r].atRequest.deletion_manifest.present
           /\ reqs[r].atRequest.deletion_manifest.status \in NonTerminalManifestStatus )
         => reqs[r].manifest = reqs[r].atRequest.deletion_manifest
    /\ \A j \in JobIds : Cardinality(ManifestRowsOf(j)) <= 1

\* C2: once a job has a deletion manifest, the manifest's artifact list
\* never changes, whatever requests or reference writes run concurrently.
C2_ArtifactListNeverChanges ==
    [][\A j \in JobIds :
         rows[j].deletion_manifest.present
         => rows'[j].deletion_manifest.artifacts = rows[j].deletion_manifest.artifacts]_vars

Attempts(j) ==
    Cardinality({w \in WorkerIds : workers[w].jobId = j /\ workers[w].pc # "idle"
                                   /\ workers[w].code # 404})

Occurrences(lane, j) == Cardinality({i \in DOMAIN lane : lane[i] = j})

\* C3: a job whose cancellation flag was set before the worker reached its
\* first checkpoint is never completed by that worker invocation (it ends
\* cancelled instead).
C3_CancelledJobNeverCompletes ==
    \A w \in WorkerIds :
      workers[w].flagAtStart => ~(workers[w].pc = "done" /\ workers[w].stage = "DONE")

\* C4: terminal job statuses are absorbing: no step changes the status or
\* the result fields (error, exportKey) of a job that is DONE, ERROR or
\* CANCELLED.
C4_TerminalStatusAbsorbing ==
    [][\A j \in JobIds :
         docs[j].status \in TerminalDocStatus
         => /\ docs'[j].status = docs[j].status
            /\ docs'[j].error = docs[j].error
            /\ docs'[j].exportKey = docs[j].exportKey]_vars

\* C5: when two concurrent updateJob/log calls on one job have returned, the
\* record holds every field either call wrote and every log entry appended.
C5_NoLostUpdate ==
    (\A c \in CallerIds : callers[c].pc = "done")
    => \A c \in CallerIds :
         LET d == docs[callers[c].jobId]
             pt == callers[c].patch
         IN /\ callers[c].op = "updateJob"
                 => /\ pt.status # Keep => d.status = pt.status
                    /\ pt.exportKey # Keep => d.exportKey = pt.exportKey
                    /\ pt.pct # -1 => d.pct = pt.pct
            /\ callers[c].op = "log"
                 => \E i \in DOMAIN d.logs : d.logs[i] = callers[c].msg

\* C8: every job id answered by admission with status QUEUED has a persisted
\* Job record and exactly one enqueued message.
C8_AdmittedJobIsPersisted ==
    \A j \in issued : docs[j].present /\ Occurrences(queue, j) = 1

\* C9: a job is failed by a thrown stage error only after the configured
\* maximum number of attempts, and then its message is in the dead-letter
\* lane exactly once.
C9_FailedOnlyAfterMaxAttempts ==
    \A j \in JobIds :
      (docs[j].status = "ERROR" /\ docs[j].error = "EXTRACT_FAIL")
      => Attempts(j) >= MaxAttempts /\ Occurrences(deadLetter, j) = 1

\* C10: while the emergency-stop flag is set no job leaves the queued state.
C10_EmergencyStopHoldsQueuedJobs ==
    [][\A j \in JobIds :
         (emergencyStop /\ docs[j].status = "QUEUED") => docs'[j].status = "QUEUED"]_vars

\* =========================================================== Cost Ledger
\* apps/api/app/services/costs.py is described by RELIABILITY_PLAYBOOK.md
\* (Cost Tracking) and by the specification, section 4.6 and section 5.

costOf(units) == units * CostPerPageCents

RECURSIVE sumCost(_, _, _)
sumCost(records, j, i) ==
    IF i = 0 THEN 0
    ELSE sumCost(records, j, i - 1)
         + (IF records[i].jobId = j /\ records[i].status \in {"pending", "completed"}
            THEN records[i].cost ELSE 0)

\* completed + pending cost of job j
spent(records, j) == sumCost(records, j, Len(records))

\* the conditional (optimistic) write of section 5: the insert goes through
\* only if the job's total is still the one the pre-check read
ledgerUnchanged_lost(records, call) == TRUE
ledgerUnchanged(records, call) == spent(records, call.jobId) = call.seen

LedgerArrives(c) ==
    /\ ledger.calls[c].pc = "idle"
    /\ \A d \in LedgerCallIds : d < c => ledger.calls[d].pc # "idle"

\* reserve(jobId, actor, estimatedUnits): read the job's total and pre-check
ReserveCheck(c, j, units) ==
    /\ \/ LedgerArrives(c) /\ j \in JobIds /\ units \in UnitChoices
       \/ /\ ledger.calls[c].pc = "retry"
          /\ j = ledger.calls[c].jobId /\ units = ledger.calls[c].units
    /\ LET total == spent(ledger.records, j)
           frame == [ledger.calls[c] EXCEPT !.jobId = j, !.units = units, !.seen = total]
       IN  ledger' = [ledger EXCEPT !.calls[c] =
               IF total + costOf(units) > MaxJobCostCents
               THEN [frame EXCEPT !.pc = "done", !.result = "QUOTA_EXCEEDED"]
               ELSE [frame EXCEPT !.pc = "insert"]]
    /\ UNCHANGED <<coreVars, moreVars, audit, plan, cors, upl, cmp, breaker>>

\* reserve, second statement: conditional insert of the pending record
ReserveInsert(c) ==
    /\ ledger.calls[c].pc = "insert"
    /\ LET call == ledger.calls[c]
       IN  IF ledgerUnchanged(ledger.records, call)
           THEN ledger' = [ledger EXCEPT
                    !.records = Append(@, [jobId |-> call.jobId, units |-> call.units,
                                           cost |-> costOf(call.units), status |-> "pending"]),
                    !.calls[c] = [call EXCEPT !.pc = "done", !.result = "reserved"]]
           ELSE ledger' = [ledger EXCEPT
                    !.calls[c] = [call EXCEPT !.pc = "retry", !.conflicts = @ + 1]]
    /\ UNCHANGED <<coreVars, moreVars, audit, plan, cors, upl, cmp, breaker>>

\* settle(recordId, actualUnits, succeeded): pending -> completed | failed
Settle(i, succeeded) ==
    /\ i \in 1..Len(ledger.records)
    /\ ledger.records[i].status = "pending"
    /\ ledger' = [ledger EXCEPT !.records[i].status =
                      IF succeeded THEN "completed" ELSE "failed"]
    /\ UNCHANGED <<coreVars, moreVars, audit, plan, cors, upl, cmp, breaker>>

\* reconciliation sweep: a stale pending record is marked failed
ReconcileStale(i) ==
    /\ i \in 1..Len(ledger.records)
    /\ ledger.records[i].status = "pending"
    /\ ledger' = [ledger EXCEPT !.records[i].status = "failed"]
    /\ UNCHANGED <<coreVars, moreVars, audit, plan, cors, upl, cmp, breaker>>

NextCost ==
    \/ \E c \in LedgerCallIds, j \in JobIds, units \in UnitChoices : ReserveCheck(c, j, units)
    \/ \E c \in LedgerCallIds : ReserveInsert(c)
    \/ \E i \in 1..MaxLedgerCalls, succeeded \in BOOLEAN : Settle(i, succeeded)
    \/ \E i \in 1..MaxLedgerCalls : ReconcileStale(i)

SpecCost == Init /\ [][NextCost]_vars

\* C11: for every job the completed plus pending cost never exceeds the
\* per-job ceiling, also when reserve calls for the same job interleave, and
\* a reserve that would exceed it answers QUOTA_EXCEEDED and adds no record.
C11_CostCeiling ==
    [][/\ \A j \in JobIds : spent(ledger'.records, j) <= MaxJobCostCents
       /\ \A c \in LedgerCallIds :
            LET call == ledger.calls[c]
            IN  (/\ call.pc = "insert"
                 /\ spent(ledger.records, call.jobId) + costOf(call.units) > MaxJobCostCents)
                => (ledger'.calls[c].pc = "insert"
                    \/ (/\ ledger'.records = ledger.records
                        /\ ledger'.calls[c].result # "reserved"))
       /\ \A c \in LedgerCallIds :
            (/\ ledger.calls[c].result # "QUOTA_EXCEEDED"
             /\ ledger'.calls[c].result = "QUOTA_EXCEEDED")
            => ledger'.records = ledger.records]_vars

\* two reserves for one job interleaved; the later insert met a changed
\* total and its retry was refused
C11_Witness ==
    \E c, d \in LedgerCallIds :
        /\ c # d
        /\ ledger.calls[c].jobId = ledger.calls[d].jobId
        /\ ledger.calls[c].result = "reserved"
        /\ ledger.calls[d].result = "QUOTA_EXCEEDED"
        /\ ledger.calls[d].conflicts > 0

\* ========================================================= Audit Batcher
\* apps/api/app/services/audit.py is described by RELIABILITY_PLAYBOOK.md
\* (Audit Logging) and by the specification, sections 3 and 4.5.

\* canonical serialization of the metadata map: independent of key order
canonicalMetadata(md) == {md[i] : i \in DOMAIN md}

\* SHA-256 over job_id + event_type + trace_id + user_id + IP + metadata +
\* timestamp (bucket); the hash is taken as collision free
idempotencyKey(jobId, eventType, traceId, actor, sourceAddress, md, bucket) ==
    <<jobId, eventType, traceId, actor, sourceAddress, canonicalMetadata(md), bucket>>

hasKey_never(store, key) == FALSE
hasKey(store, key) == \E i \in DOMAIN store : store[i].key = key

\* bulk insert ... ON CONFLICT DO NOTHING
RECURSIVE insertIgnoreConflicts(_, _)
insertIgnoreConflicts(store, batch) ==
    IF batch = <<>> THEN store
    ELSE insertIgnoreConflicts(
             IF hasKey(store, Head(batch).key) THEN store ELSE Append(store, Head(batch)),
             Tail(batch))

batchLen == IF Len(audit.buffer) < AuditBatchSize THEN Len(audit.buffer) ELSE AuditBatchSize

\* record(jobId, eventType, actor, sourceAddress, traceId, metadata)
Record(j, eventType, md) ==
    /\ Len(audit.log) < MaxAuditRecords
    /\ LET event == [jobId |-> j, eventType |-> eventType, traceId |-> "t1",
                     actor |-> "u1", sourceAddress |-> "10.0.0.1", metadata |-> md,
                     bucket |-> audit.bucket,
                     key |-> idempotencyKey(j, eventType, "t1", "u1", "10.0.0.1", md,
                                            audit.bucket)]
       IN  audit' = [audit EXCEPT !.buffer = Append(@, event), !.log = Append(@, event)]
    /\ UNCHANGED <<coreVars, moreVars, ledger, plan, cors, upl, cmp, breaker>>

\* the wall clock moves into the next timestamp bucket
NextBucket ==
    /\ audit.bucket < MaxBucket
    /\ audit' = [audit EXCEPT !.bucket = @ + 1]
    /\ UNCHANGED <<coreVars, moreVars, ledger, plan, cors, upl, cmp, breaker>>

\* flush: one bulk insert of the next batch, which then leaves the buffer
Flush ==
    /\ audit.buffer # <<>>
    /\ audit' = [audit EXCEPT
           !.store = insertIgnoreConflicts(@, SubSeq(audit.buffer, 1, batchLen)),
           !.buffer = SubSeq(@, batchLen + 1, Len(@))]
    /\ UNCHANGED <<coreVars, moreVars, ledger, plan, cors, upl, cmp, breaker>>

\* flush whose insert reached the store but whose call failed: the batch
\* stays buffered and is flushed again
FlushFails ==
    /\ audit.buffer # <<>>
    /\ audit' = [audit EXCEPT
           !.store = insertIgnoreConflicts(@, SubSeq(audit.buffer, 1, batchLen))]
    /\ UNCHANGED <<coreVars, moreVars, ledger, plan, cors, upl, cmp, breaker>>

NextAudit ==
    \/ \E j \in KnownJobs, eventType \in AuditEventTypes, md \in MetadataChoices :
           Record(j, eventType, md)
    \/ NextBucket
    \/ Flush
    \/ FlushFails

SpecAudit == Init /\ [][NextAudit]_vars

sameTuple(a, b) ==
    /\ a.jobId = b.jobId /\ a.eventType = b.eventType /\ a.traceId = b.traceId
    /\ a.actor = b.actor /\ a.sourceAddress = b.sourceAddress
    /\ canonicalMetadata(a.metadata) = canonicalMetadata(b.metadata)
storedFor(event) == {i \in DOMAIN audit.store : sameTuple(audit.store[i], event)}
inBuffer(event) == \E i \in DOMAIN audit.buffer : audit.buffer[i].key = event.key

\* C12 as stated: a (jobId, eventType, traceId, actor, sourceAddress,
\* metadata) tuple recorded twice is stored as exactly one AuditEvent.
C12_OneEventPerTuple ==
    \A i \in DOMAIN audit.log : Cardinality(storedFor(audit.log[i])) <= 1

\* C12, amended: a tuple recorded twice within one timestamp bucket, in one
\* batch, in different batches or around a retried flush, is stored as
\* exactly one AuditEvent once it has left the buffer, and nothing recorded
\* is lost.
C12_OneEventPerTupleAndBucket ==
    \A i \in DOMAIN audit.log :
        LET event == audit.log[i]
            stored == {k \in storedFor(event) : audit.store[k].bucket = event.bucket}
        IN  /\ Cardinality(stored) <= 1
            /\ inBuffer(event) \/ Cardinality(stored) = 1

\* the same tuple recorded MaxAuditRecords times in one bucket, with its
\* metadata keys in both orders, and every batch flushed: one row
C12_Witness ==
    /\ audit.buffer = <<>>
    /\ Len(audit.store) = 1
    /\ Len(audit.log) = MaxAuditRecords
    /\ \A i \in DOMAIN audit.log : audit.log[i].key = audit.store[1].key
    /\ \E i, k \in DOMAIN audit.log : audit.log[i].metadata # audit.log[k].metadata

\* ================================================== admission and dedup
\* JobDoc.sourceKey of the job documents createJob is called with
sourceKeyOf(j) == IF j = "j1" THEN "incoming/j1.pdf" ELSE "incoming/j2.pdf"

\* canonical content hash of an uploaded object: incoming/j2.pdf is a
\* second upload of the document under incoming/j1.pdf
canonicalHash(sourceKey) == IF sourceKey = "incoming/other.pdf" THEN "c2" ELSE "c1"

completedWithHash(hash) ==
    {k \in JobIds : docs[k].status = "DONE" /\ canonicalHash(sourceKeyOf(k)) = hash}

\* C13: admitting content whose canonical hash equals that of a prior
\* completed job creates a new Job that is completed immediately (and is
\* never executed by a worker, and gets no pending cost record).
C13_DedupShortCircuit ==
    [][(/\ admission' # admission
        /\ admission'.code = 200
        /\ completedWithHash(canonicalHash(admission'.sourceKey)) # {})
       => (/\ admission'.status = "completed"
           /\ docs'[admission'.jobId].present
           /\ docs'[admission'.jobId].status = "DONE")]_vars

\* ================================================= error classification
\* messages that come from a thrown exception rather than from the handler
RawMessages == ExceptionMessages \ {""}

\* C14: when a pipeline stage throws, the error descriptor stored on the Job
\* and the error returned to the caller hold only a fixed classification,
\* never the raw exception message.
C14_NoRawExceptionDetail ==
    /\ \A j \in JobIds : docs[j].errorMessage \notin RawMessages
    /\ \A w \in WorkerIds : workers[w].body \notin RawMessages

\* ============================================================ progress
\* C15: within one worker execution the progress written before a stage
\* runs is that stage's, every published percent is within 0..100 and not
\* lower than the one published before it, and percent 100 is published
\* only in the update that sets the status DONE.
C15_ProgressMonotoneBounded ==
    \A w \in WorkerIds :
        /\ workers[w].published \in 0..100
        /\ ~workers[w].regressed
        /\ workers[w].published = 100 => workers[w].publishedWith = "DONE"
        /\ workers[w].publishedWith = "DONE" => workers[w].published = 100
        /\ workers[w].pc = "run" => workers[w].published = progressPct(workers[w].stage)

\* two executions of one job ran every stage and published 100 with DONE
C15_Witness ==
    \A w \in 1..2 :
        /\ workers[w].pc = "done" /\ workers[w].stage = "DONE"
        /\ workers[w].jobId = "j1"
        /\ workers[w].published = 100

\* ======================================================= initiate-upload
\* Sizes are counted in units of 256 KiB, so that 5 GiB x 10,000 stays
\* within TLC's integers; every comparison and ceiling of the handler is
\* computed on these numbers as the handler computes it on bytes.
MiB == 4
MIN_PART_SIZE == 5 * MiB
MAX_PART_SIZE == 5 * 1024 * MiB
MAX_PARTS == 10000
MAX_PROCESSABLE == MAX_PART_SIZE * MAX_PARTS

\* env.ts: R2_MULTIPART_THRESHOLD_MB (5, 5.5, 50 and 5121 MB)
ThresholdChoices == {5 * MiB, 5 * MiB + 2, 50 * MiB, MAX_PART_SIZE + MiB}
\* env.ts: PDF_MAX_MB (100 MB, 50 TB and above)
PdfMaxChoices == {100 * MiB, MAX_PROCESSABLE, MAX_PROCESSABLE + MiB}
ContentTypes == {"application/pdf", "image/png"}

\* request sizes around every branch of the handler for threshold t
SizeChoices(t) ==
    {0, 1, t - 1, t, t + 1, 2 * t, 2 * t + 1, 100 * MiB, 100 * MiB + 1,
     MAX_PARTS * MIN_PART_SIZE, MAX_PARTS * MIN_PART_SIZE + 1,
     MAX_PARTS * t - 1, MAX_PARTS * t, MAX_PARTS * t + 1,
     MAX_PARTS * (t + MiB) + 1, MAX_PARTS * 1024 * MiB + 7,
     MAX_PROCESSABLE - MAX_PARTS, MAX_PROCESSABLE - MAX_PARTS + 1,
     MAX_PROCESSABLE - 1, MAX_PROCESSABLE, MAX_PROCESSABLE + 1}

max2(a, b) == IF a >= b THEN a ELSE b
min2(a, b) == IF a <= b THEN a ELSE b
\* Math.ceil(a / b) for positive integers
ceilDiv_floor(a, b) == a \div b
ceilDiv(a, b) == (a + b - 1) \div b

\* lines 109-115
planPartSize(size, threshold) ==
    LET wanted == max2(MIN_PART_SIZE, max2(threshold, ceilDiv(size, MAX_PARTS)))
        capped == min2(wanted, MAX_PART_SIZE)
    IN  ceilDiv(capped, MiB) * MiB

\* line 117
planPartCount(size, partSize) == ceilDiv(size, partSize)

\* lines 119-132: Array.from({ length: partCount }, (_, index) => index + 1)
planParts(partCount) == [i \in 1..partCount |-> (i - 1) + 1]

\* env.ts lines 52-68 and 93-104: the configuration the module loads with
LoadEnv(threshold, pdfMax) ==
    /\ ~plan.loaded
    /\ threshold >= 5 * MiB
    /\ threshold <= pdfMax
    /\ plan' = [NoPlan EXCEPT !.loaded = TRUE, !.threshold = threshold, !.pdfMax = pdfMax]
    /\ UNCHANGED <<coreVars, moreVars, ledger, audit, cors, upl, cmp, breaker>>

\* part_003 lines 36-143; created: CreateMultipartUpload was sent (line 97)
InitiateUpload(size, contentType) ==
    /\ plan.loaded
    /\ LET request == [plan EXCEPT !.size = size, !.contentType = contentType,
                                   !.uploadType = "none", !.partSize = 0, !.parts = <<>>,
                                   !.created = FALSE]
           partSize == planPartSize(size, plan.threshold)
       IN  plan' =
             IF size <= 0 THEN [request EXCEPT !.code = 400]
             ELSE IF contentType # "application/pdf" THEN [request EXCEPT !.code = 415]
             ELSE IF size > plan.pdfMax THEN [request EXCEPT !.code = 413]
             ELSE IF size > MAX_PROCESSABLE THEN [request EXCEPT !.code = 413]
             ELSE IF size < plan.threshold
                  THEN [request EXCEPT !.code = 200, !.uploadType = "single"]
             ELSE [request EXCEPT !.code = 200, !.uploadType = "multipart",
                                  !.created = TRUE,
                                  !.partSize = partSize,
                                  !.parts = planParts(planPartCount(size, partSize))]
    /\ UNCHANGED <<coreVars, moreVars, ledger, audit, cors, upl, cmp, breaker>>

NextPlan ==
    \/ \E threshold \in ThresholdChoices, pdfMax \in PdfMaxChoices : LoadEnv(threshold, pdfMax)
    \/ \E size \in SizeChoices(plan.threshold), contentType \in ContentTypes :
           InitiateUpload(size, contentType)

SpecPlan == Init /\ [][NextPlan]_vars

\* C16: a PDF upload of size s with threshold <= s <= 5 GiB x 10,000 that
\* passes the configured size limit gets a multipart plan with
\* 5 MiB <= partSize <= 5 GiB, exactly ceil(s / partSize) <= 10,000 parts
\* numbered 1..partCount and partCount x partSize >= s; a PDF upload larger
\* than 5 GiB x 10,000 is answered 413.
C16_MultipartPlanWithinLimits ==
    LET partCount == Len(plan.parts)
        isPdf == plan.contentType = "application/pdf"
    IN  /\ (/\ isPdf /\ plan.code # 0
            /\ plan.threshold <= plan.size /\ plan.size <= MAX_PROCESSABLE
            /\ plan.size <= plan.pdfMax)
           => plan.code = 200 /\ plan.uploadType = "multipart"
        /\ plan.uploadType = "multipart"
           => /\ plan.threshold <= plan.size /\ plan.size <= MAX_PROCESSABLE
              /\ 5 * MiB <= plan.partSize /\ plan.partSize <= 5 * 1024 * MiB
              /\ partCount >= 1 /\ partCount <= 10000
              /\ (partCount - 1) * plan.partSize < plan.size
              /\ partCount * plan.partSize >= plan.size
              /\ \A i \in 1..partCount : plan.parts[i] = i
        /\ (isPdf /\ plan.code # 0 /\ plan.size > 5 * 1024 * MiB * 10000) => plan.code = 413

\* the largest accepted upload: 10,000 parts of 5 GiB
C16_Witness ==
    /\ plan.uploadType = "multipart"
    /\ plan.size = MAX_PROCESSABLE
    /\ Len(plan.parts) = MAX_PARTS
    /\ plan.partSize = MAX_PART_SIZE

\* ========================================================= createHandler
\* An origin string is kept as its lower-case text, whether it is written
\* with capitals, and the number of slashes at its end; "" is EmptyString.
EmptyString == [kind |-> "empty"]
Wildcard == [kind |-> "star"]
originString(text, capitals, slashes) ==
    [kind |-> "origin", text |-> text, capitals |-> capitals, slashes |-> slashes]

\* env.ts lines 76-78, 90: the configured ALLOWED_ORIGINS
ALLOWED_ORIGINS ==
    << originString("https://frontend.test", FALSE, 0),
       originString("https://admin.test", TRUE, 1) >>

OriginTexts == {"https://frontend.test", "https://admin.test", "https://bad.test", "null"}
HeaderValues ==
    {Absent, EmptyString}
    \cup {originString(text, capitals, slashes) :
              text \in OriginTexts, capitals \in BOOLEAN, slashes \in 0..2}
\* values of a second header field spelled Origin
CapitalHeaderValues ==
    {Absent, originString("https://frontend.test", FALSE, 0),
     originString("https://bad.test", FALSE, 0)}
HttpMethods == {"OPTIONS", "POST", "GET"}
allowedMethods == {"POST"}

\* _utils.ts line 25: origin.toLowerCase().replace(/\/$/, '')
normalizeOrigin(value) ==
    IF value.kind # "origin" THEN value
    ELSE [value EXCEPT !.capitals = FALSE,
                       !.slashes = IF @ > 0 THEN @ - 1 ELSE 0]

\* env.ts line 91
ALLOWED_ORIGINS_NORMALIZED ==
    [i \in DOMAIN ALLOWED_ORIGINS |-> normalizeOrigin(ALLOWED_ORIGINS[i])]

\* a JavaScript string used as a condition: undefined and "" are falsy
truthy(value) == value.kind \notin {"absent", "empty"}

\* Array.prototype.indexOf: first index, 0 when there is none
indexOf(list, value) ==
    IF \E i \in DOMAIN list : list[i] = value
    THEN CHOOSE i \in DOMAIN list :
             list[i] = value /\ \A k \in DOMAIN list : list[k] = value => i <= k
    ELSE 0

\* _utils.ts lines 27-39
resolveOrigin(originValue) ==
    IF ~truthy(originValue) THEN Absent
    ELSE LET index == indexOf(ALLOWED_ORIGINS_NORMALIZED, normalizeOrigin(originValue))
         IN  IF index = 0 THEN Absent ELSE ALLOWED_ORIGINS[index]

\* line 79: event.headers?.origin ?? event.headers?.Origin
requestedOriginOf(headers) ==
    IF headers.origin # Absent THEN headers.origin ELSE headers.Origin

\* lines 83 and 107: requestedOrigin && !origin
originRefused_never(requestedOrigin, origin) == FALSE
originRefused(requestedOrigin, origin) == truthy(requestedOrigin) /\ ~truthy(origin)

\* lines 76-161; the wrapped handler answers 200 or throws
HandleRequest(method, headers, handlerThrows) ==
    /\ LET requestedOrigin == requestedOriginOf(headers)
           origin == resolveOrigin(requestedOrigin)
           request == [NoCors EXCEPT !.method = method, !.headers = headers]
       IN  cors' =
             IF originRefused(requestedOrigin, origin)
             THEN [request EXCEPT !.code = 403]
             ELSE IF method = "OPTIONS"
             THEN [request EXCEPT !.code = 204,
                       !.allowOrigin = IF truthy(origin) THEN origin
                                       ELSE IF Len(ALLOWED_ORIGINS) > 0
                                            THEN ALLOWED_ORIGINS[1] ELSE Wildcard]
             ELSE IF method \notin allowedMethods
             THEN [request EXCEPT !.code = 405, !.allowOrigin = origin]
             ELSE [request EXCEPT !.code = IF handlerThrows THEN 500 ELSE 200,
                                  !.allowOrigin = origin, !.invoked = TRUE]
    /\ UNCHANGED <<coreVars, moreVars, ledger, audit, plan, upl, cmp, breaker>>

NextCors ==
    \E method \in HttpMethods, lower \in HeaderValues, upper \in CapitalHeaderValues,
       handlerThrows \in BOOLEAN :
        HandleRequest(method, [origin |-> lower, Origin |-> upper], handlerThrows)

SpecCors == Init /\ [][NextCors]_vars

\* the Origin header of the last request matches an allowed origin when
\* compared case-insensitively, ignoring one trailing slash
matchesAllowed(value) ==
    /\ value.kind = "origin"
    /\ \E i \in DOMAIN ALLOWED_ORIGINS :
          LET allowed == ALLOWED_ORIGINS[i]
          IN  /\ allowed.text = value.text
              /\ (IF allowed.slashes > 0 THEN allowed.slashes - 1 ELSE 0)
                 = (IF value.slashes > 0 THEN value.slashes - 1 ELSE 0)
refusedWithoutHandler ==
    cors.code = 403 /\ cors.allowOrigin = Absent /\ ~cors.invoked

\* C17 as stated: a request whose Origin header is present and matches no
\* allowed origin is answered 403 without Access-Control-Allow-Origin and
\* the wrapped handler is not invoked.
C17_PresentUnmatchedOriginRefused ==
    LET value == requestedOriginOf(cors.headers)
    IN  (cors.code # 0 /\ value # Absent /\ ~matchesAllowed(value)) => refusedWithoutHandler

\* C17, amended: the same for a request whose Origin header is present and
\* not empty; such a request is answered 403 only in that case.
C17_NonEmptyUnmatchedOriginRefused ==
    LET value == requestedOriginOf(cors.headers)
    IN  /\ (cors.code # 0 /\ value \notin {Absent, EmptyString} /\ ~matchesAllowed(value))
           => refusedWithoutHandler
        /\ cors.code = 403 => ~matchesAllowed(value) /\ value \notin {Absent, EmptyString}

\* a POST from an allowed origin written with two trailing slashes: refused
C17_Witness ==
    /\ cors.method = "POST"
    /\ cors.headers.origin = originString("https://frontend.test", TRUE, 2)
    /\ refusedWithoutHandler

\* ==================================================== uploadPartWithRetry
\* An ETag is the sequence of its pieces; Quote is one double-quote character.
Quote == "dquote"
EtagChoices ==
    { <<Quote, "abc123", Quote>>, <<"abc123">>, <<"W/", Quote, "abc123", Quote>>,
      <<Quote, "abc123">>, <<Quote>> }

\* etag.replace(/^"|"$/g, ''): a quote at the start and a quote at the end
normalizeEtag(etag) ==
    LET noLead == IF etag # <<>> /\ Head(etag) = Quote THEN Tail(etag) ELSE etag
    IN  IF noLead # <<>> /\ noLead[Len(noLead)] = Quote
        THEN SubSeq(noLead, 1, Len(noLead) - 1) ELSE noLead

\* what one fetch(url, PUT) settles with
FetchOutcomes == {"network error", "ok", "4xx", "5xx"}

\* UploadPanel.tsx line 409: 1000 * 2 ** attempt
backoffMs(attempt) == 1000 * 2 ^ attempt

\* lines 376-384 and 413: the call; with maxRetries <= 0 the loop is skipped
CallUploadPart(maxRetries) ==
    /\ upl.pc = "idle"
    /\ upl' = IF maxRetries <= 0
              THEN [IdleUpload EXCEPT !.pc = "rejected", !.maxRetries = maxRetries,
                                      !.error = "failed after attempts"]
              ELSE [IdleUpload EXCEPT !.pc = "fetch", !.maxRetries = maxRetries]
    /\ UNCHANGED <<coreVars, moreVars, ledger, audit, plan, cors, cmp, breaker>>

\* lines 385-408 and 411-413: one PUT settles
FetchSettles(outcome, etag) ==
    /\ upl.pc = "fetch"
    /\ outcome = "ok" \/ etag = NoEtag
    /\ LET sent == [upl EXCEPT !.puts = @ + 1,
                        !.lastOutcome = IF outcome = "ok" /\ etag = NoEtag
                                        THEN "ok without ETag" ELSE outcome,
                        !.firstOk = IF outcome = "ok" /\ @ = NoEtag /\ etag # NoEtag
                                    THEN etag ELSE @]
           thrown == IF outcome = "ok" THEN "Missing ETag"
                     ELSE IF outcome = "4xx" THEN "Part status" ELSE "network error"
       IN  upl' =
             IF outcome = "ok" /\ etag # NoEtag
             THEN [sent EXCEPT !.pc = "resolved", !.value = normalizeEtag(etag)]
             ELSE IF outcome = "5xx"
             THEN IF upl.attempt + 1 < upl.maxRetries
                  THEN [sent EXCEPT !.attempt = @ + 1, !.delays = Append(@, 0)]
                  ELSE [sent EXCEPT !.pc = "rejected", !.attempt = @ + 1,
                                    !.error = "failed after attempts"]
             ELSE IF upl.attempt = upl.maxRetries - 1
             THEN [sent EXCEPT !.pc = "rejected", !.error = thrown]
             ELSE [sent EXCEPT !.pc = "backoff"]
    /\ UNCHANGED <<coreVars, moreVars, ledger, audit, plan, cors, cmp, breaker>>

\* line 409: the timer of the catch block fires and the loop goes on
BackoffElapsed ==
    /\ upl.pc = "backoff"
    /\ upl' = [upl EXCEPT !.pc = "fetch", !.attempt = @ + 1,
                          !.delays = Append(@, backoffMs(upl.attempt))]
    /\ UNCHANGED <<coreVars, moreVars, ledger, audit, plan, cors, cmp, breaker>>

NextUpload ==
    \/ \E maxRetries \in 0..MaxRetryLimit : CallUploadPart(maxRetries)
    \/ \E outcome \in FetchOutcomes, etag \in EtagChoices \cup {NoEtag} :
           FetchSettles(outcome, etag)
    \/ BackoffElapsed

SpecUpload == Init /\ [][NextUpload]_vars

\* C18: uploadPartWithRetry issues at most maxRetries PUTs, starts retry k
\* only after a delay of 1000 x 2^(k-1) ms, resolves with the quote-stripped
\* ETag of the first successful response, and rejects once the attempts are
\* used up.
C18_RetryWithBackoff ==
    /\ upl.puts <= upl.maxRetries
    /\ \A k \in DOMAIN upl.delays : upl.delays[k] = 1000 * 2 ^ (k - 1)
    /\ upl.pc = "resolved" => upl.value = normalizeEtag(upl.firstOk)
    /\ (upl.pc # "idle" /\ upl.puts = upl.maxRetries) => upl.pc \in {"resolved", "rejected"}

\* C24: uploadPartWithRetry retries only network errors and 5xx responses: a
\* non-5xx error response, or a successful response without an ETag header,
\* makes it reject after that single attempt with no further PUT issued.
C24_NoRetryOfClientErrors ==
    /\ upl.lastOutcome \in {"4xx", "ok without ETag"} => upl.pc = "rejected"
    /\ upl.pc \in {"backoff", "fetch"} /\ upl.puts > 0
       => upl.lastOutcome \in {"network error", "5xx"}

\* ===================================================== complete-multipart
PartNumbers == 1..3
PartChoices == [partNumber : PartNumbers, etag : EtagChoices]
RECURSIVE seqsUpTo(_, _)
seqsUpTo(S, n) ==
    IF n = 0 THEN {<<>>}
    ELSE LET shorter == seqsUpTo(S, n - 1)
         IN  shorter \cup {Append(q, x) : q \in {r \in shorter : Len(r) = n - 1}, x \in S}

\* [...parts].sort((a, b) => a.partNumber - b.partNumber): stable insertion
RECURSIVE insertByPartNumber(_, _)
insertByPartNumber(sorted, part) ==
    IF sorted = <<>> THEN <<part>>
    ELSE IF part.partNumber < Head(sorted).partNumber THEN <<part>> \o sorted
    ELSE <<Head(sorted)>> \o insertByPartNumber(Tail(sorted), part)
RECURSIVE sortByPartNumber(_)
sortByPartNumber(parts) ==
    IF parts = <<>> THEN <<>>
    ELSE insertByPartNumber(sortByPartNumber(SubSeq(parts, 1, Len(parts) - 1)),
                            parts[Len(parts)])

\* part_001 lines 52-55
storageParts(orderedParts) ==
    [i \in DOMAIN orderedParts |->
        [ETag |-> normalizeEtag(orderedParts[i].etag),
         PartNumber |-> orderedParts[i].partNumber]]

\* a sourceKey is <dir>/<hash>/<rest>: its first segment, and the length and
\* alphabet of its second; uploads/<64 hex>/..., invalid/key.pdf, and
\* uploads/<64 characters, not all hex>/...
CompletionKeys ==
    { [dir |-> "uploads", hashLen |-> 64, hashIsHex |-> TRUE],
      [dir |-> "invalid", hashLen |-> 7, hashIsHex |-> FALSE],
      [dir |-> "uploads", hashLen |-> 64, hashIsHex |-> FALSE] }

\* part_001 line 33: /^uploads\/[a-f0-9]{64}\//iu.test(sourceKey)
matchesUploadKey(key) == key.dir = "uploads" /\ key.hashLen = 64 /\ key.hashIsHex

\* part_001 lines 21-65, for a valid uploadId; sent: the Parts of the
\* CompleteMultipartUpload command, empty when none was sent
CompleteMultipart(sourceKey, parts) ==
    /\ cmp' = IF Len(parts) < 1
              THEN [sourceKey |-> sourceKey, parts |-> parts, code |-> 400, sent |-> <<>>]
              ELSE IF ~matchesUploadKey(sourceKey)
              THEN [sourceKey |-> sourceKey, parts |-> parts, code |-> 400, sent |-> <<>>]
              ELSE [sourceKey |-> sourceKey, parts |-> parts, code |-> 200,
                    sent |-> storageParts(sortByPartNumber(parts))]
    /\ UNCHANGED <<coreVars, moreVars, ledger, audit, plan, cors, upl, breaker>>

NextComplete ==
    \E sourceKey \in CompletionKeys, parts \in seqsUpTo(PartChoices, MaxPartsSent) :
        CompleteMultipart(sourceKey, parts)

SpecComplete == Init /\ [][NextComplete]_vars

\* an ETag without the pair of double quotes around it, if it has one
withoutSurroundingQuotes(etag) ==
    IF Len(etag) >= 2 /\ Head(etag) = Quote /\ etag[Len(etag)] = Quote
    THEN SubSeq(etag, 2, Len(etag) - 1) ELSE etag

\* C19: complete-multipart passes the parts to storage in ascending
\* partNumber order whatever the order of the request, each with its ETag
\* stripped of the surrounding double quotes and otherwise unchanged.
C19_OrderedPartsQuotesStripped ==
    cmp.code = 200 =>
        /\ Len(cmp.sent) = Len(cmp.parts)
        /\ \A i, k \in DOMAIN cmp.sent :
              i < k => cmp.sent[i].PartNumber <= cmp.sent[k].PartNumber
        /\ \A number \in PartNumbers, etag \in {withoutSurroundingQuotes(e) : e \in EtagChoices} :
              Cardinality({i \in DOMAIN cmp.sent :
                              cmp.sent[i].PartNumber = number /\ cmp.sent[i].ETag = etag})
              = Cardinality({i \in DOMAIN cmp.parts :
                              /\ cmp.parts[i].partNumber = number
                              /\ withoutSurroundingQuotes(cmp.parts[i].etag) = etag})

\* ========================================================= CircuitBreaker
\* breaker.recovered stands for Date.now() - lastFailureTime > recoveryTimeout;
\* lastEvent and stateBefore record the last call of execute, onSuccess or
\* onFailure and the state it found.
failureThreshold == 5

\* api.ts line 60
reachesThreshold_late(failureCount) == failureCount > failureThreshold
reachesThreshold(failureCount) == failureCount >= failureThreshold

\* lines 32-42: execute up to the await of the operation
Execute ==
    /\ breaker.inFlight < MaxInFlight
    /\ breaker' =
         IF breaker.state = "open" /\ ~breaker.recovered
         THEN [breaker EXCEPT !.lastEvent = "rejected", !.stateBefore = breaker.state]
         ELSE [breaker EXCEPT
                  !.state = IF @ = "open" THEN "half-open" ELSE @,
                  !.inFlight = @ + 1,
                  !.lastEvent = "started", !.stateBefore = breaker.state]
    /\ UNCHANGED <<coreVars, moreVars, ledger, audit, plan, cors, upl, cmp>>

\* lines 43-44 and 51-54: the operation resolved
OperationSucceeds ==
    /\ breaker.inFlight > 0
    /\ breaker' = [breaker EXCEPT !.failureCount = 0, !.state = "closed",
                                  !.inFlight = @ - 1,
                                  !.lastEvent = "success", !.stateBefore = breaker.state]
    /\ UNCHANGED <<coreVars, moreVars, ledger, audit, plan, cors, upl, cmp>>

\* lines 45-47 and 56-63: the operation rejected
OperationFails ==
    /\ breaker.inFlight > 0
    /\ breaker.failureCount < MaxFailureCount
    /\ breaker' = [breaker EXCEPT
           !.failureCount = @ + 1,
           !.recovered = FALSE,
           !.state = IF reachesThreshold(breaker.failureCount + 1) THEN "open" ELSE @,
           !.inFlight = @ - 1,
           !.lastEvent = "failure", !.stateBefore = breaker.state]
    /\ UNCHANGED <<coreVars, moreVars, ledger, audit, plan, cors, upl, cmp>>

\* more than recoveryTimeout has passed since the last failure
RecoveryTimeoutPasses ==
    /\ ~breaker.recovered
    /\ breaker.failureCount > 0
    /\ breaker' = [breaker EXCEPT !.recovered = TRUE]
    /\ UNCHANGED <<coreVars, moreVars, ledger, audit, plan, cors, upl, cmp>>

NextBreaker ==
    \/ Execute
    \/ OperationSucceeds
    \/ OperationFails
    \/ RecoveryTimeoutPasses

SpecBreaker == Init /\ [][NextBreaker]_vars

\* C20: the breaker is CLOSED exactly when fewer than 5 failures have been
\* recorded since the last success; the 5th failure in a row opens it, a
\* failure while HALF_OPEN re-opens it, and a success resets the failure
\* count to 0 and closes it.
C20_ClosedIffBelowThreshold ==
    /\ breaker.state = "closed" <=> breaker.failureCount < 5
    /\ (breaker.lastEvent = "failure" /\ breaker.failureCount = 5) => breaker.state = "open"
    /\ (breaker.lastEvent = "failure" /\ breaker.stateBefore = "half-open")
       => breaker.state = "open"
    /\ breaker.lastEvent = "success"
       => breaker.failureCount = 0 /\ breaker.state = "closed"

\* the probe let through after the recovery timeout failed: open again
C20_Witness ==
    /\ breaker.lastEvent = "failure"
    /\ breaker.stateBefore = "half-open"
    /\ breaker.state = "open"
    /\ breaker.failureCount = 6

\* C21: once OPEN the breaker stays OPEN, and execute rejects without
\* invoking the operation, until more than 30 s have passed since the last
\* recorded failure, also when an operation that was in flight when it
\* opened completes successfully in the meantime.
C21_OpenUntilRecoveryTimeout ==
    [][(breaker.state = "open" /\ ~breaker.recovered /\ ~breaker'.recovered)
       => /\ breaker'.state = "open"
          /\ breaker'.inFlight <= breaker.inFlight]_vars

\* ========================================================= enhancedFetch
\* apps/web/src/lib/api.ts lines 93-184 and apps/web/src/lib/utils.ts lines
\* 90-101.  One call: the AbortController and the timers it arms, the loop
\* position, and the outcome of every fetch attempt made so far.  Timers are
\* named by the attempt that armed them.
ResponseStatuses == {200, 300, 404, 408, 429, 503}
FetchRetryChoices == 1..MaxFetchRetries

\* utils.ts lines 90-101; status 0 stands for an error without status
isRetryableError(status) ==
    IF status = 0 THEN TRUE
    ELSE IF status >= 500 THEN TRUE
    ELSE status = 408 \/ status = 429

\* api.ts line 125
responseOk(status) == status >= 200 /\ status <= 299

\* api.ts lines 138-141
thrownWithoutRetry(status) ==
    status >= 400 /\ status < 500 /\ status # 408 /\ status # 429

\* lines 100-122: the call up to the await of the first fetch
EnhancedFetch(retries) ==
    /\ ef.pc = "idle"
    /\ ef' = [IdleFetch EXCEPT !.pc = "fetching", !.retries = retries,
                               !.timers = {0}]
    /\ UNCHANGED <<coreVars, sideVars, fs, flow, statusReq>>

\* lines 153-179: the catch block, for an error carrying this status
catchBlock(f, status) ==
    IF f.attempt < f.retries - 1 /\ isRetryableError(status)
    THEN [f EXCEPT !.pc = "backoff"]
    ELSE [f EXCEPT !.pc = "thrown"]

\* lines 122-150: fetch resolved with a response
ResponseArrives(status) ==
    /\ ef.pc = "fetching"
    /\ ~ef.aborted
    /\ LET f == [ef EXCEPT !.timers = @ \ {ef.attempt},
                           !.log = Append(@, [kind |-> "response", status |-> status])]
       IN ef' =
            IF responseOk(status) THEN [f EXCEPT !.pc = "returned"]
            ELSE IF thrownWithoutRetry(status) THEN catchBlock(f, status)
            ELSE IF f.attempt < f.retries - 1 THEN [f EXCEPT !.pc = "backoff"]
            ELSE [f EXCEPT !.pc = "thrown"]
    /\ UNCHANGED <<coreVars, sideVars, fs, flow, statusReq>>

\* lines 152-172: fetch rejected with a network error; timeoutId2 of this
\* attempt is not cleared
NetworkError ==
    /\ ef.pc = "fetching"
    /\ ~ef.aborted
    /\ ef' = catchBlock([ef EXCEPT !.log = Append(@, [kind |-> "network", status |-> 0])], 0)
    /\ UNCHANGED <<coreVars, sideVars, fs, flow, statusReq>>

\* lines 102 and 120: a timer that is still armed fires, controller.abort()
TimerFires(k) ==
    /\ ef.pc \in {"fetching", "backoff"}
    /\ k \in ef.timers
    /\ ef' = [ef EXCEPT !.timers = @ \ {k},
                        !.aborted = TRUE,
                        !.abortedBy = IF ef.aborted THEN @ ELSE k,
                        !.abortedAt = IF ef.aborted THEN @ ELSE ef.attempt]
    /\ UNCHANGED <<coreVars, sideVars, fs, flow, statusReq>>

\* lines 152-164: fetch rejected with AbortError, the signal being aborted
FetchAborts ==
    /\ ef.pc = "fetching"
    /\ ef.aborted
    /\ ef' = catchBlock([ef EXCEPT !.log = Append(@, [kind |-> "abort", status |-> 408])], 408)
    /\ UNCHANGED <<coreVars, sideVars, fs, flow, statusReq>>

\* lines 117-122: the delay is over, the next iteration calls fetch
DelayElapsed ==
    /\ ef.pc = "backoff"
    /\ ef' = [ef EXCEPT !.pc = "fetching",
                        !.attempt = @ + 1,
                        !.timers = @ \cup {ef.attempt + 1},
                        !.startedAborted = @ \/ ef.aborted]
    /\ UNCHANGED <<coreVars, sideVars, fs, flow, statusReq>>

\* ============================================================= fetchSafe
\* unnamed/part_028 (src/lib/http/fetchSafe.ts) lines 15-41: one controller
\* and one timer for the whole call.
FetchSafeRetryChoices == 0..(MaxFetchRetries - 1)

\* lines 15-32
FetchSafe(retries) ==
    /\ fs.pc = "idle"
    /\ fs' = [IdleFetchSafe EXCEPT !.pc = "fetching", !.retries = retries,
                                   !.timers = {0}]
    /\ UNCHANGED <<coreVars, sideVars, ef, flow, statusReq>>

\* lines 32-34
FetchSafeResolves ==
    /\ fs.pc = "fetching"
    /\ ~fs.aborted
    /\ fs' = [fs EXCEPT !.pc = "returned", !.timers = {}]
    /\ UNCHANGED <<coreVars, sideVars, ef, flow, statusReq>>

\* lines 35-38: fetch rejected, by the network or by the aborted signal
FetchSafeRejects ==
    /\ fs.pc = "fetching"
    /\ fs' = [fs EXCEPT !.pc = IF fs.attempt = fs.retries THEN "thrown" ELSE "backoff"]
    /\ UNCHANGED <<coreVars, sideVars, ef, flow, statusReq>>

\* line 26
FetchSafeTimerFires ==
    /\ fs.pc \in {"fetching", "backoff"}
    /\ 0 \in fs.timers
    /\ fs' = [fs EXCEPT !.timers = {}, !.aborted = TRUE,
                        !.abortedBy = 0, !.abortedAt = fs.attempt]
    /\ UNCHANGED <<coreVars, sideVars, ef, flow, statusReq>>

\* lines 30-32 after line 37
FetchSafeDelayElapsed ==
    /\ fs.pc = "backoff"
    /\ fs' = [fs EXCEPT !.pc = "fetching", !.attempt = @ + 1,
                        !.startedAborted = @ \/ fs.aborted]
    /\ UNCHANGED <<coreVars, sideVars, ef, flow, statusReq>>

NextFetch ==
    \/ \E retries \in FetchRetryChoices : EnhancedFetch(retries)
    \/ \E status \in ResponseStatuses : ResponseArrives(status)
    \/ NetworkError
    \/ \E k \in 0..(MaxFetchRetries - 1) : TimerFires(k)
    \/ FetchAborts
    \/ DelayElapsed
    \/ \E retries \in FetchSafeRetryChoices : FetchSafe(retries)
    \/ FetchSafeResolves
    \/ FetchSafeRejects
    \/ FetchSafeTimerFires
    \/ FetchSafeDelayElapsed

SpecFetch == Init /\ [][NextFetch]_vars

retriedKinds == {"network", "abort"}
retriedStatuses == {408, 429} \cup {n \in ResponseStatuses : n >= 500}

\* C22: enhancedFetch makes at most `retries` fetch attempts per call, retries
\* only network errors, timeouts, 5xx, 408 and 429 responses, and throws
\* after exactly one attempt when the response is any other 4xx.
C22_BoundedSelectiveRetry ==
    /\ Len(ef.log) <= ef.retries
    /\ ef.pc # "idle" => ef.attempt + 1 <= ef.retries
    /\ \A i \in 1..Len(ef.log) :
         (i < Len(ef.log) \/ ef.pc \in {"backoff", "fetching"})
         => \/ ef.log[i].kind \in retriedKinds
            \/ ef.log[i].kind = "response" /\ ef.log[i].status \in retriedStatuses
    /\ \A i \in 1..Len(ef.log) :
         (ef.log[i].kind = "response" /\ thrownWithoutRetry(ef.log[i].status))
         => i = Len(ef.log) /\ ef.pc = "thrown"

\* C23: in enhancedFetch and fetchSafe every retry attempt runs with a
\* signal that is not already aborted and with its own full timeout: an
\* attempt that timed out does not make the following attempts abort at
\* once, and no timer left over from an earlier attempt aborts a later one.
C23_FreshSignalPerAttempt ==
    /\ ~ef.startedAborted
    /\ ef.abortedBy # NoTimer => ef.abortedBy = ef.abortedAt
    /\ ~fs.startedAborted
    /\ fs.abortedBy # NoTimer => fs.abortedBy = fs.abortedAt

\* ================================== background worker, terminal statuses
\* C25: every invocation of the background worker for an existing job that
\* returns leaves the job in a terminal status (DONE or ERROR); no path,
\* an exception at any stage or a failed storage write included, leaves the
\* job in PROCESSING.
C25_ReturnLeavesTerminalStatus ==
    [][\A w \in WorkerIds :
          (workers[w].pc # "done" /\ workers'[w].pc = "done" /\ workers'[w].code # 404)
          => docs'[workers'[w].jobId].status \in {"DONE", "ERROR"}]_vars

\* ============================================================ get-status
\* unnamed/part_006 holds two handlers of the status endpoint: the one that
\* reads the job document (lines 1-24) and a createHandler stub (lines
\* 26-45).  The empty string is the request without a jobId.
StatusJobIds == JobIds \cup {""}

\* part_006 line 17
offersDownload_anyStatus(job) == job.exportKey # NoKey
offersDownload(job) == job.status = "DONE" /\ job.exportKey # NoKey

\* part_006 line 18: presignGet(job.exportKey, 60 * 30)
presignGet(key) == "signed:" \o key

\* part_006 lines 9-24
GetStatus(jobId, presignThrows) ==
    /\ statusReq' =
         IF jobId = ""
         THEN [NoStatusResponse EXCEPT !.handler = "getJob", !.jobId = jobId, !.code = 400]
         ELSE IF ~docs[jobId].present
         THEN [NoStatusResponse EXCEPT !.handler = "getJob", !.jobId = jobId, !.code = 404]
         ELSE IF offersDownload(docs[jobId]) /\ presignThrows
         THEN [NoStatusResponse EXCEPT !.handler = "getJob", !.jobId = jobId, !.code = 400]
         ELSE [handler |-> "getJob", jobId |-> jobId, code |-> 200,
               status |-> docs[jobId].status, exportKey |-> docs[jobId].exportKey,
               downloadUrl |-> IF offersDownload(docs[jobId])
                               THEN presignGet(docs[jobId].exportKey) ELSE NoKey]
    /\ UNCHANGED <<coreVars, sideVars, ef, fs, flow>>

\* part_006 lines 28-45
GetStatusStub(jobId) ==
    /\ statusReq' =
         IF jobId = ""
         THEN [NoStatusResponse EXCEPT !.handler = "stub", !.jobId = jobId, !.code = 400]
         ELSE [NoStatusResponse EXCEPT !.handler = "stub", !.jobId = jobId, !.code = 200,
                                      !.status = "QUEUED"]
    /\ UNCHANGED <<coreVars, sideVars, ef, fs, flow>>

\* the worker with as many invocations as ops.md lets run at once, and the
\* status endpoint polled at any moment
NextStatus ==
    \/ \E j \in KnownJobs : CreateJob(j)
    \/ \E w \in 1..WorkerConcurrency, j \in JobIds : WorkerStart(w, j)
    \/ \E w \in 1..WorkerConcurrency : UpdateJobRead(w)
    \/ \E w \in 1..WorkerConcurrency : UpdateJobWrite(w)
    \/ \E w \in 1..WorkerConcurrency : StageOk(w)
    \/ \E w \in 1..WorkerConcurrency : StageRejects(w)
    \/ \E w \in 1..WorkerConcurrency, message \in ExceptionMessages : StageThrows(w, message)
    \/ \E w \in 1..WorkerConcurrency, message \in StorageErrorMessages :
          StorageFault(w, message)
    \/ \E jobId \in StatusJobIds, presignThrows \in BOOLEAN : GetStatus(jobId, presignThrows)
    \/ \E jobId \in StatusJobIds : GetStatusStub(jobId)

SpecStatus == Init /\ [][NextStatus]_vars

\* C26: whenever a job's status is DONE its exportKey is set and the export
\* object was written to storage before the status became DONE, and the
\* status endpoint returns a download URL only for a job that is DONE with
\* an exportKey.
C26_DoneHasExport ==
    /\ \A j \in JobIds :
         (docs[j].present /\ docs[j].status = "DONE")
         => docs[j].exportKey # NoKey /\ docs[j].exportKey \in objects
    /\ statusReq.downloadUrl # NoKey
       => /\ statusReq.status = "DONE"
          /\ statusReq.exportKey # NoKey
          /\ statusReq.exportKey \in objects

\* a finished job polled: the answer carries the signed URL of its export
C26_Witness ==
    /\ docs["j1"].status = "DONE"
    /\ statusReq.code = 200 /\ statusReq.jobId = "j1"
    /\ statusReq.downloadUrl = presignGet(exportKeyOf("j1"))

\* ====================================================== UploadPanel onDrop
\* apps/web/src/components/UploadPanel.tsx lines 58-173 (onDrop), 286-303
\* (uploadSingle) and 305-340 (uploadMultipart), with the client calls of
\* unnamed/part_020 (lib/uploads.ts), each of which resolves or throws
\* UploadError.  flow.calls lists the requests issued, in order.
DropKinds == {"rejected", "not a pdf", "too large", "pdf"}
ResolvedEtags == {normalizeEtag(e) : e \in EtagChoices}

\* UploadPanel.tsx line 329
partEntry_first(partNumber, etag) == [partNumber |-> 1, etag |-> etag]
partEntry(partNumber, etag) == [partNumber |-> partNumber, etag |-> etag]

\* lines 154-172: the catch block of onDrop
flowFailed(f) == [f EXCEPT !.pc = "failed", !.failedAfter = Len(f.calls)]

\* lines 59-113: the checks before any request, then computeHashes
OnDrop(kind) ==
    /\ flow.pc \in {"idle", "blocked", "queued", "failed"}
    /\ flow' = IF kind = "pdf" THEN [IdleFlow EXCEPT !.pc = "hashing"]
               ELSE [IdleFlow EXCEPT !.pc = "blocked"]
    /\ UNCHANGED <<coreVars, sideVars, ef, fs, statusReq>>

\* lines 113-123: the checksum settles; initiateUpload is called
HashSettles(hashed) ==
    /\ flow.pc = "hashing"
    /\ flow' = IF hashed
               THEN [flow EXCEPT !.pc = "initiating", !.calls = Append(@, "initiate-upload")]
               ELSE flowFailed(flow)
    /\ UNCHANGED <<coreVars, sideVars, ef, fs, statusReq>>

\* lines 125-135 and 310-323: the plan arrives; the first PUT is issued
InitiateSettles(uploadType, planned) ==
    /\ flow.pc = "initiating"
    /\ uploadType = "multipart" <=> planned > 0
    /\ flow' =
         CASE uploadType = "error" -> flowFailed(flow)
           [] uploadType = "single" ->
                [flow EXCEPT !.pc = "put", !.uploadType = uploadType,
                             !.calls = Append(@, "PUT")]
           [] uploadType = "multipart" ->
                [flow EXCEPT !.pc = "part", !.uploadType = uploadType,
                             !.planned = planned, !.part = 1,
                             !.calls = Append(@, "PUT part")]
    /\ UNCHANGED <<coreVars, sideVars, ef, fs, statusReq>>

\* lines 286-303 and 137-143: the single PUT settles; ingestPdf is called
PutSettles(uploaded) ==
    /\ flow.pc = "put"
    /\ flow' = IF uploaded
               THEN [flow EXCEPT !.pc = "ingesting", !.putOk = TRUE,
                                 !.calls = Append(@, "ingest-pdf")]
               ELSE flowFailed(flow)
    /\ UNCHANGED <<coreVars, sideVars, ef, fs, statusReq>>

\* lines 322-337: uploadPartWithRetry settles; next part or completion
PartSettles(uploaded, etag) ==
    /\ flow.pc = "part"
    /\ flow' =
         IF ~uploaded THEN flowFailed(flow)
         ELSE LET etags == Append(flow.etags, partEntry(flow.part, etag))
              IN IF flow.part < flow.planned
                 THEN [flow EXCEPT !.etags = etags, !.partsOk = @ + 1, !.part = @ + 1,
                                   !.calls = Append(@, "PUT part")]
                 ELSE [flow EXCEPT !.pc = "completing", !.etags = etags,
                                   !.partsOk = @ + 1, !.completeParts = etags,
                                   !.calls = Append(@, "complete-multipart")]
    /\ UNCHANGED <<coreVars, sideVars, ef, fs, statusReq>>

\* lines 333-339 and 137-143: completion settles; ingestPdf is called
CompleteSettles(completed) ==
    /\ flow.pc = "completing"
    /\ flow' = IF completed
               THEN [flow EXCEPT !.pc = "ingesting", !.completeOk = TRUE,
                                 !.calls = Append(@, "ingest-pdf")]
               ELSE flowFailed(flow)
    /\ UNCHANGED <<coreVars, sideVars, ef, fs, statusReq>>

\* lines 139-151: ingest settles
IngestSettles(queued) ==
    /\ flow.pc = "ingesting"
    /\ flow' = IF queued THEN [flow EXCEPT !.pc = "queued"] ELSE flowFailed(flow)
    /\ UNCHANGED <<coreVars, sideVars, ef, fs, statusReq>>

NextFlow ==
    \/ \E kind \in DropKinds : OnDrop(kind)
    \/ \E hashed \in BOOLEAN : HashSettles(hashed)
    \/ \E uploadType \in {"single", "multipart", "error"}, planned \in 0..MaxPlannedParts :
          InitiateSettles(uploadType, planned)
    \/ \E uploaded \in BOOLEAN : PutSettles(uploaded)
    \/ \E uploaded \in BOOLEAN, etag \in ResolvedEtags : PartSettles(uploaded, etag)
    \/ \E completed \in BOOLEAN : CompleteSettles(completed)
    \/ \E queued \in BOOLEAN : IngestSettles(queued)

SpecFlow == Init /\ [][NextFlow]_vars

callsOf(name) == {i \in DOMAIN flow.calls : flow.calls[i] = name}

\* C27: complete-multipart is called only after every planned part has been
\* uploaded successfully and with exactly one {partNumber, etag} entry per
\* part; ingest is requested only after the single PUT or the multipart
\* completion has succeeded; a failure at any step issues no later call.
C27_UploadFlowOrder ==
    /\ callsOf("complete-multipart") # {}
       => /\ flow.uploadType = "multipart"
          /\ flow.partsOk = flow.planned
          /\ Cardinality(callsOf("PUT part")) = flow.planned
          /\ Len(flow.completeParts) = flow.planned
          /\ \A k \in 1..flow.planned :
                Cardinality({i \in DOMAIN flow.completeParts :
                                flow.completeParts[i].partNumber = k}) = 1
    /\ callsOf("ingest-pdf") # {}
       => \/ flow.uploadType = "single" /\ flow.putOk
          \/ flow.uploadType = "multipart" /\ flow.completeOk
    /\ Cardinality(callsOf("complete-multipart")) <= 1
    /\ Cardinality(callsOf("ingest-pdf")) <= 1
    /\ flow.pc = "failed" => Len(flow.calls) = flow.failedAfter
    /\ flow.pc = "blocked" => flow.calls = <<>>

\* a multipart upload of two parts that was completed and queued
C27_Witness ==
    /\ flow.pc = "queued"
    /\ flow.uploadType = "multipart"
    /\ flow.planned = 2
    /\ flow.calls = <<"initiate-upload", "PUT part", "PUT part",
                      "complete-multipart", "ingest-pdf">>

ValidationSizes(t) == {0, t - 1, t, 100 * MiB + 1, MAX_PROCESSABLE + 1}
FirstParts == {part \in PartChoices : part.partNumber = 1}

NextValidation ==
    \/ \E pdfMax \in PdfMaxChoices : LoadEnv(MIN_PART_SIZE, pdfMax)
    \/ \E size \in ValidationSizes(plan.threshold), contentType \in ContentTypes :
          InitiateUpload(size, contentType)
    \/ \E sourceKey \in CompletionKeys, parts \in seqsUpTo(FirstParts, 1) :
          CompleteMultipart(sourceKey, parts)
    \/ \E j \in JobIds, sourceKey \in SourceKeys,
          payloadValid \in BOOLEAN, sizeMatches \in BOOLEAN, sniffedPdf \in BOOLEAN :
          IngestPdf(j, sourceKey, ingestOutcome(payloadValid, sizeMatches, sniffedPdf))

SpecValidation == Init /\ [][NextValidation]_vars

\* C29: a request rejected by validation in initiate-upload (400/413/415),
\* complete-multipart (400) or ingest-pdf (400/409/415) performs no storage
\* mutation: no multipart upload is created or completed and no job id is
\* issued.
C29_RejectedRequestMutatesNothing ==
    [][/\ (plan' # plan /\ plan'.code \in {400, 413, 415}) => ~plan'.created
       /\ (cmp' # cmp /\ cmp'.code = 400) => cmp'.sent = <<>>
       /\ (admission' # admission /\ admission'.code \in {400, 409, 415})
          => /\ issued' = issued
             /\ admission'.jobId = NoKey
       /\ (\/ (plan' # plan /\ plan'.code \in {400, 413, 415})
           \/ (cmp' # cmp /\ cmp'.code = 400)
           \/ (admission' # admission /\ admission'.code \in {400, 409, 415}))
          => objects' = objects /\ docs' = docs]_vars

\* each endpoint has accepted work before and has just refused a request:
\* an oversized PDF, a completion for a key outside uploads/, an object
\* whose size differs from the announced one
C29_Witness ==
    /\ plan.code = 413 /\ plan.contentType = "application/pdf"
    /\ cmp.code = 400 /\ cmp.parts # <<>> /\ ~matchesUploadKey(cmp.sourceKey)
    /\ admission.code = 409
    /\ issued # {}

====
